---- MODULE Spec2Model ----
(***************************************************************************)
(* RectSelector (the rect-region selector of the canvas tools) and the     *)
(* CSV export provider.                                                    *)
(*                                                                         *)
(* The selector is a state machine driven by pointer events, key events,   *)
(* hide() and show().  Every pointer listener only schedules its body with *)
(* window.requestAnimationFrame; the bodies run later, in the order they   *)
(* were scheduled.  The key listeners act at once.                         *)
(***************************************************************************)
EXTENDS Integers, Sequences, FiniteSets

(* ----------------------------- bounds ---------------------------------- *)

\* The number of scheduled animation-frame callbacks that may be waiting.
MaxPending == 1

\* Host calls are counted up to this number.
MaxCalls == 2

(* ----------------------------- values ---------------------------------- *)

Pt(px, py) == [x |-> px, y |-> py]

Rect(w, h) == [width |-> w, height |-> h]

\* What a run is given: the bound rectangle the selector is constructed with
\* (boundRect), the positions its pointer events carry, relative to the parent
\* node (e.clientX - rect[0].left, e.clientY - rect[0].top), and the values
\* e.shiftKey takes in its key events.  The position of the last scene lies
\* outside the bound rectangle.
Scenes ==
    { [boundRect |-> Rect(50, 40), shiftKeys |-> { FALSE },
       points |-> { Pt(10, 10), Pt(50, 40) }],
      [boundRect |-> Rect(30, 30), shiftKeys |-> BOOLEAN,
       points |-> { Pt(0, 0), Pt(30, 10) }],
      [boundRect |-> Rect(50, 40), shiftKeys |-> { FALSE },
       points |-> { Pt(5, 5), Pt(25, 15) }],
      [boundRect |-> Rect(50, 40), shiftKeys |-> { FALSE },
       points |-> { Pt(60, -5) }] }

NoPoint == Pt(-1, -1)

RECT == "RECT"
SQUARE == "SQUARE"

Min(a, b) == IF a < b THEN a ELSE b
Max(a, b) == IF a > b THEN a ELSE b
Abs(a) == IF a < 0 THEN 0 - a ELSE a

(* ------------------- geometry and scene elements ------------------------ *)

\* Point2D.boundToRect(r): the point moved into the rectangle r.
boundToRect(p, r) ==
    Pt(Max(0, Min(r.width, p.x)), Max(0, Min(r.height, p.y)))

\* The free corner of the square with one corner at ref that stretches towards p:
\* its side is the larger of |dx|, |dy|, and it lies in p's quadrant.
squareCorner(p, ref) ==
    LET dx == p.x - ref.x
        dy == p.y - ref.y
        side == Max(Abs(dx), Abs(dy))
        vx == IF dx < 0 THEN 0 - 1 ELSE 1
        vy == IF dy < 0 THEN 0 - 1 ELSE 1
    IN  Pt(ref.x + side * vx, ref.y + side * vy)

\* CrossElement.move(p, boundRect, square, ref): the cross at p,
\* square-constrained against ref when asked, and kept inside the bound rect.
crossMove(cross, p, r, square, ref) ==
    LET q == IF square THEN squareCorner(p, ref) ELSE p
        np == boundToRect(q, r)
    IN  [cross EXCEPT !.x = np.x, !.y = np.y]

\* Element.show / Element.hide.
showElement(el) == [el EXCEPT !.visible = TRUE]
hideElement(el) == [el EXCEPT !.visible = FALSE]

\* RegionData.BuildRectRegionData(x, y, width, height).
BuildRectRegionData(rx, ry, w, h) ==
    [type |-> "RECT", x |-> rx, y |-> ry, width |-> w, height |-> h]

NoRegion == [type |-> "NONE", x |-> 0, y |-> 0, width |-> 0, height |-> 0]

\* moveSelectionBox with the box placed at its first corner.
moveSelectionBox_atFirstCorner(box, pa, pb) ==
    [box EXCEPT !.x = pa.x, !.y = pa.y,
                !.width = Abs(pa.x - pb.x), !.height = Abs(pa.y - pb.y)]

\* moveSelectionBox(box, pa, pb): the box spanned by the corners pa and pb.
moveSelectionBox(box, pa, pb) ==
    LET bx == IF pa.x < pb.x THEN pa.x ELSE pb.x
        by == IF pa.y < pb.y THEN pa.y ELSE pb.y
        w == Abs(pa.x - pb.x)
        h == Abs(pa.y - pb.y)
    IN  [box EXCEPT !.x = bx, !.y = by, !.width = w, !.height = h]

\* selectionRegion with crossA taken for the top-left corner.
selectionRegion_atCrossA(ca, cb) ==
    BuildRectRegionData(ca.x, ca.y, Abs(ca.x - cb.x), Abs(ca.y - cb.y))

\* selectionRegion with the signed differences for the size.
selectionRegion_signed(ca, cb) ==
    BuildRectRegionData(Min(ca.x, cb.x), Min(ca.y, cb.y), ca.x - cb.x, ca.y - cb.y)

\* The region handed to onSelectionEnd, computed from the two crosses.
selectionRegion(ca, cb) ==
    LET rx == Min(ca.x, cb.x)
        ry == Min(ca.y, cb.y)
        w == Abs(ca.x - cb.x)
        h == Abs(ca.y - cb.y)
    IN  BuildRectRegionData(rx, ry, w, h)

(* ------------------------------ state ----------------------------------- *)

VARIABLES
    capturingState,        \* RectSelector.capturingState
    isTwoPoints,           \* RectSelector.isTwoPoints
    selectionModificator,  \* RectSelector.selectionModificator
    isVisible,             \* the selector's own node is shown
    crossA,                \* [x, y, visible]
    crossB,                \* [x, y, visible]
    selectionBox,          \* [x, y, width, height, visible]
    mask,                  \* [visible]
    pending,               \* the scheduled animation-frame callbacks, oldest first
    captureHeld,           \* parentNode holds the pointer capture
    scene,                 \* the bound rectangle and the pointer positions of this run
    last,                  \* the listener or scheduled body that acted last
    out,                   \* what that step was given, found and called
    track,                 \* history of the capture under way
    results,               \* CsvExportProvider: the assets being exported
    cursor,                \* the place of the export loop in results
    dataItems,             \* the CSV records pushed so far
    saved,                 \* the metadata handed to assetService.save, in order
    toasts,                \* the errors shown with toast.error, in order
    csvData                \* the records written to the CSV file

selectorVars ==
    << capturingState, isTwoPoints, selectionModificator, isVisible,
       crossA, crossB, selectionBox, mask >>

exportVars == << results, cursor, dataItems, saved, toasts, csvData >>

vars ==
    << capturingState, isTwoPoints, selectionModificator, isVisible,
       crossA, crossB, selectionBox, mask, pending, captureHeld,
       scene, last, out, track,
       results, cursor, dataItems, saved, toasts, csvData >>

\* Selector.moveCross(cross, pointTo, square, ref).
moveCross(cross, p, square, ref) == crossMove(cross, p, scene.boundRect, square, ref)

Pos(el) == Pt(el.x, el.y)

NoKey == [shiftKey |-> FALSE, ctrlKey |-> FALSE, none |-> TRUE]

\* What a step was given (key: the key event), what it found (capturing,
\* twoPoints, held: capturingState, isTwoPoints and the pointer capture before
\* the step) and what it called (cb: "begin" for onSelectionBegin, "end" for
\* onSelectionEnd(region); call: "set" for setPointerCapture, "release" for
\* releasePointerCapture).
Called(cb, region, call, key) ==
    [cb |-> cb, region |-> region, call |-> call, key |-> key,
     capturing |-> capturingState, twoPoints |-> isTwoPoints, held |-> captureHeld]

Quiet == Called("none", NoRegion, "none", NoKey)

\* The history of the capture under way, kept while only pointer-down, -move
\* and -up bodies run (any other listener or body forgets it):
\* track.clean: a capture was begun and only such bodies ran since;
\* track.anchor: the point of the event that began the capture (the
\*   pointer-down in one-point mode, the arming pointer-up in two-point mode);
\* track.from: where crossA was when the capture began;
\* track.moved: the point of the last pointer-move handled while capturing
\*   (NoPoint: none);
\* track.up: the point of the last pointer-up handled in two-point mode
\*   (NoPoint: none);
\* track.gesture: "down" once a pointer-down body ran, "up" once the
\*   pointer-up body that follows it ran;
\* track.acquired, track.released: the calls of setPointerCapture and
\*   releasePointerCapture since that pointer-down body.
NoTrack ==
    [clean |-> FALSE, anchor |-> NoPoint, from |-> NoPoint, moved |-> NoPoint,
     up |-> NoPoint, gesture |-> "none", acquired |-> 0, released |-> 0]

Step(kind, p) == [kind |-> kind, p |-> p]

Count(n) == Min(n, MaxCalls)

afterUp(gesture) == IF gesture = "down" THEN "up" ELSE "none"

\* The history once a pointer-move is handled with no capture under way.
outsideCapture(t) ==
    [t EXCEPT !.clean = FALSE, !.anchor = NoPoint, !.from = NoPoint,
              !.moved = NoPoint, !.up = NoPoint]

\* The state the constructor leaves: buildUIElements(), then hide().
SelectorInit ==
    /\ capturingState = FALSE
    /\ isTwoPoints = FALSE
    /\ selectionModificator = RECT
    /\ isVisible = FALSE
    /\ crossA = [x |-> 0, y |-> 0, visible |-> FALSE]
    /\ crossB = [x |-> 0, y |-> 0, visible |-> FALSE]
    /\ selectionBox = [x |-> 0, y |-> 0, width |-> 0, height |-> 0, visible |-> TRUE]
    /\ mask = [visible |-> FALSE]
    /\ pending = << >>
    /\ captureHeld = FALSE
    /\ scene \in Scenes
    /\ last = "init"
    /\ out = [cb |-> "none", region |-> NoRegion, call |-> "none", key |-> NoKey,
              capturing |-> FALSE, twoPoints |-> FALSE, held |-> FALSE]
    /\ track = NoTrack

NotWritten == [written |-> FALSE, records |-> << >>]

\* No export is under way.
ExportIdle ==
    /\ results = << >>
    /\ cursor = 1
    /\ dataItems = << >>
    /\ saved = << >>
    /\ toasts = << >>
    /\ csvData = NotWritten

Init == SelectorInit /\ ExportIdle

(* --------------------------- the listeners ------------------------------ *)

\* A pointer listener: window.requestAnimationFrame(() => {...}).
schedule(kind, p) ==
    /\ Len(pending) < MaxPending
    /\ pending' = Append(pending, Step(kind, p))
    /\ UNCHANGED << selectorVars, captureHeld, scene, last, out, track >>
    /\ UNCHANGED exportVars

onPointerEnter == schedule("pointerenter", NoPoint)
onPointerLeave == \E p \in scene.points : schedule("pointerleave", p)
onPointerDown == \E p \in scene.points : schedule("pointerdown", p)
onPointerUp == \E p \in scene.points : schedule("pointerup", p)
onPointerMove == \E p \in scene.points : schedule("pointermove", p)

(* ---------------- the bodies run in the animation frame ----------------- *)

\* The body scheduled by onPointerEnter.
enterFrame(p) ==
    /\ crossA' = showElement(crossA)
    /\ out' = Quiet
    /\ track' = NoTrack
    /\ UNCHANGED << capturingState, isTwoPoints, selectionModificator, isVisible,
                    crossB, selectionBox, mask, captureHeld >>

\* leaveFrame hiding the crosses and the box whether capturing or not.
leaveFrame_alwaysHides(p) ==
    /\ crossA' = hideElement(crossA)
    /\ crossB' = hideElement(crossB)
    /\ selectionBox' = hideElement(selectionBox)
    /\ out' = Quiet
    /\ track' = NoTrack
    /\ UNCHANGED << capturingState, isTwoPoints, selectionModificator, isVisible,
                    mask, captureHeld >>

\* The body scheduled by onPointerLeave.
leaveFrame(p) ==
    /\ IF ~capturingState
          THEN /\ crossA' = hideElement(crossA)
               /\ crossB' = hideElement(crossB)
               /\ selectionBox' = hideElement(selectionBox)
          ELSE IF isTwoPoints /\ capturingState
                  THEN /\ crossB' = moveCross(crossB, p, FALSE, NoPoint)
                       /\ selectionBox' = moveSelectionBox(selectionBox, crossA, crossB')
                       /\ UNCHANGED crossA
                  ELSE UNCHANGED << crossA, crossB, selectionBox >>
    /\ out' = Quiet
    /\ track' = NoTrack
    /\ UNCHANGED << capturingState, isTwoPoints, selectionModificator, isVisible,
                    mask, captureHeld >>

\* downBegin without the call of setPointerCapture.
downBegin_noCapture(p) ==
    /\ capturingState' = TRUE
    /\ crossB' = showElement(moveCross(crossB, crossA, FALSE, NoPoint))
    /\ selectionBox' = showElement(moveSelectionBox(selectionBox, crossA, crossB'))
    /\ mask' = showElement(mask)
    /\ out' = Called("begin", NoRegion, "none", NoKey)
    /\ track' = [clean |-> TRUE, anchor |-> p, from |-> Pos(crossA),
                 moved |-> NoPoint, up |-> NoPoint, gesture |-> "down",
                 acquired |-> 0, released |-> 0]
    /\ UNCHANGED << isTwoPoints, selectionModificator, isVisible, crossA,
                    captureHeld >>

\* The pointer-down body in one-point mode: the capture begins.
downBegin(p) ==
    /\ capturingState' = TRUE
    /\ captureHeld' = TRUE
    /\ crossB' = showElement(moveCross(crossB, crossA, FALSE, NoPoint))
    /\ selectionBox' = showElement(moveSelectionBox(selectionBox, crossA, crossB'))
    /\ mask' = showElement(mask)
    /\ out' = Called("begin", NoRegion, "set", NoKey)
    /\ track' = [clean |-> TRUE, anchor |-> p, from |-> Pos(crossA),
                 moved |-> NoPoint, up |-> NoPoint, gesture |-> "down",
                 acquired |-> 1, released |-> 0]
    /\ UNCHANGED << isTwoPoints, selectionModificator, isVisible, crossA >>

\* The body scheduled by onPointerDown.
downFrame(p) ==
    IF ~isTwoPoints
       THEN downBegin(p)
       ELSE /\ out' = Quiet
            /\ track' = [track EXCEPT !.gesture = "down", !.up = NoPoint,
                                      !.acquired = 0, !.released = 0]
            /\ UNCHANGED << selectorVars, captureHeld >>

\* upOnePoint that hides the mask and leaves crossB shown.
upOnePoint_keepCrossB(p) ==
    /\ capturingState' = FALSE
    /\ captureHeld' = FALSE
    /\ mask' = hideElement(mask)
    /\ out' = Called("end", selectionRegion(crossA, crossB), "release", NoKey)
    /\ track' = [track EXCEPT !.released = Count(@ + 1), !.gesture = afterUp(@)]
    /\ UNCHANGED << isTwoPoints, selectionModificator, isVisible, crossA, crossB,
                    selectionBox >>

\* The pointer-up body in one-point mode.
upOnePoint(p) ==
    /\ capturingState' = FALSE
    /\ captureHeld' = FALSE
    /\ crossB' = hideElement(crossB)
    /\ mask' = hideElement(mask)
    /\ out' = Called("end", selectionRegion(crossA, crossB), "release", NoKey)
    /\ track' = [track EXCEPT !.released = Count(@ + 1), !.gesture = afterUp(@)]
    /\ UNCHANGED << isTwoPoints, selectionModificator, isVisible, crossA,
                    selectionBox >>

\* upCommit with crossA left where it is.
upCommit_keepCrossA(p) ==
    /\ capturingState' = FALSE
    /\ mask' = hideElement(mask)
    /\ out' = Called("end", selectionRegion(crossA, crossB), "none", NoKey)
    /\ crossB' = moveCross(hideElement(crossB), p, FALSE, NoPoint)
    /\ track' = [track EXCEPT !.up = p, !.gesture = afterUp(@)]
    /\ UNCHANGED << isTwoPoints, selectionModificator, isVisible, crossA,
                    selectionBox, captureHeld >>

\* The pointer-up body in two-point mode, while capturing: the commit.
upCommit(p) ==
    /\ capturingState' = FALSE
    /\ mask' = hideElement(mask)
    /\ out' = Called("end", selectionRegion(crossA, crossB), "none", NoKey)
    /\ crossA' = moveCross(crossA, p, FALSE, NoPoint)
    /\ crossB' = moveCross(hideElement(crossB), p, FALSE, NoPoint)
    /\ track' = [track EXCEPT !.up = p, !.gesture = afterUp(@)]
    /\ UNCHANGED << isTwoPoints, selectionModificator, isVisible,
                    selectionBox, captureHeld >>

\* upArm that only places the corner: nothing shown, no callback.
upArm_silent(p) ==
    /\ capturingState' = TRUE
    /\ crossB' = moveCross(crossB, p, FALSE, NoPoint)
    /\ selectionBox' = moveSelectionBox(selectionBox, crossA, crossB')
    /\ out' = Called("none", NoRegion, "none", NoKey)
    /\ track' = [track EXCEPT !.clean = TRUE, !.anchor = p, !.from = Pos(crossA),
                              !.moved = NoPoint, !.up = p, !.gesture = afterUp(@)]
    /\ UNCHANGED << isTwoPoints, selectionModificator, isVisible, crossA, mask,
                    captureHeld >>

\* The pointer-up body in two-point mode, while not capturing: the first corner.
upArm(p) ==
    /\ capturingState' = TRUE
    /\ crossB' = showElement(moveCross(crossB, p, FALSE, NoPoint))
    /\ selectionBox' = showElement(moveSelectionBox(selectionBox, crossA, crossB'))
    /\ crossA' = showElement(crossA)
    /\ mask' = showElement(mask)
    /\ out' = Called("begin", NoRegion, "none", NoKey)
    /\ track' = [track EXCEPT !.clean = TRUE, !.anchor = p, !.from = Pos(crossA),
                              !.moved = NoPoint, !.up = p, !.gesture = afterUp(@)]
    /\ UNCHANGED << isTwoPoints, selectionModificator, isVisible, captureHeld >>

\* The body scheduled by onPointerUp.
upFrame(p) ==
    IF ~isTwoPoints
       THEN upOnePoint(p)
       ELSE IF capturingState THEN upCommit(p) ELSE upArm(p)

\* moveFrame with the free rectangle whatever selectionModificator is.
moveFrame_neverSquare(p) ==
    /\ IF capturingState
          THEN /\ crossB' = moveCross(crossB, p, FALSE, crossA)
               /\ selectionBox' = moveSelectionBox(selectionBox, crossA, crossB')
               /\ crossA' = showElement(crossA)
               /\ track' = IF track.clean THEN [track EXCEPT !.moved = p] ELSE track
          ELSE /\ crossA' = moveCross(showElement(crossA), p, FALSE, NoPoint)
               /\ crossB' = IF isTwoPoints
                               THEN moveCross(crossB, p, FALSE, NoPoint)
                               ELSE crossB
               /\ track' = outsideCapture(track)
               /\ UNCHANGED selectionBox
    /\ out' = Quiet
    /\ UNCHANGED << capturingState, isTwoPoints, selectionModificator, isVisible,
                    mask, captureHeld >>

\* moveFrame without the update of the selection box.
moveFrame_staleBox(p) ==
    /\ IF capturingState
          THEN /\ crossB' = moveCross(crossB, p, selectionModificator = SQUARE, crossA)
               /\ crossA' = showElement(crossA)
               /\ track' = IF track.clean THEN [track EXCEPT !.moved = p] ELSE track
          ELSE /\ crossA' = moveCross(showElement(crossA), p, FALSE, NoPoint)
               /\ crossB' = IF isTwoPoints
                               THEN moveCross(crossB, p, FALSE, NoPoint)
                               ELSE crossB
               /\ track' = outsideCapture(track)
    /\ out' = Quiet
    /\ UNCHANGED << capturingState, isTwoPoints, selectionModificator, isVisible,
                    selectionBox, mask, captureHeld >>

\* The body scheduled by onPointerMove.
moveFrame(p) ==
    /\ IF capturingState
          THEN /\ crossB' = moveCross(crossB, p, selectionModificator = SQUARE, crossA)
               /\ selectionBox' = moveSelectionBox(selectionBox, crossA, crossB')
               /\ crossA' = showElement(crossA)
               /\ track' = IF track.clean THEN [track EXCEPT !.moved = p] ELSE track
          ELSE /\ crossA' = moveCross(showElement(crossA), p, FALSE, NoPoint)
               /\ crossB' = IF isTwoPoints
                               THEN moveCross(crossB, p, FALSE, NoPoint)
                               ELSE crossB
               /\ track' = outsideCapture(track)
               /\ UNCHANGED selectionBox
    /\ out' = Quiet
    /\ UNCHANGED << capturingState, isTwoPoints, selectionModificator, isVisible,
                    mask, captureHeld >>

\* The animation frame runs the oldest scheduled body.
AnimationFrame ==
    /\ pending # << >>
    /\ LET e == Head(pending)
       IN  /\ pending' = Tail(pending)
           /\ last' = e.kind
           /\ UNCHANGED << scene, exportVars >>
           /\ CASE e.kind = "pointerenter" -> enterFrame(e.p)
                [] e.kind = "pointerleave" -> leaveFrame(e.p)
                [] e.kind = "pointerdown" -> downFrame(e.p)
                [] e.kind = "pointerup" -> upFrame(e.p)
                [] e.kind = "pointermove" -> moveFrame(e.p)

(* ------------------------- the key listeners ---------------------------- *)

KeyEvent(shift, ctrl) == [shiftKey |-> shift, ctrlKey |-> ctrl, none |-> FALSE]

\* onKeyDown entering two-point mode whether capturing or not.
keyDown_anyState(e) ==
    /\ selectionModificator' = IF e.shiftKey THEN SQUARE ELSE selectionModificator
    /\ isTwoPoints' = IF e.ctrlKey THEN TRUE ELSE isTwoPoints
    /\ UNCHANGED exportVars
    /\ last' = "keydown"
    /\ out' = Called("none", NoRegion, "none", e)
    /\ track' = NoTrack
    /\ UNCHANGED << capturingState, isVisible, crossA, crossB, selectionBox, mask,
                    pending, captureHeld, scene >>

\* onKeyDown(e).
keyDown(e) ==
    /\ selectionModificator' = IF e.shiftKey THEN SQUARE ELSE selectionModificator
    /\ isTwoPoints' = IF e.ctrlKey /\ ~capturingState THEN TRUE ELSE isTwoPoints
    /\ UNCHANGED exportVars
    /\ last' = "keydown"
    /\ out' = Called("none", NoRegion, "none", e)
    /\ track' = NoTrack
    /\ UNCHANGED << capturingState, isVisible, crossA, crossB, selectionBox, mask,
                    pending, captureHeld, scene >>

\* onKeyUp leaving the mask shown when it exits two-point mode.
keyUp_keepMask(e) ==
    /\ selectionModificator' = IF ~e.shiftKey THEN RECT ELSE selectionModificator
    /\ IF ~e.ctrlKey /\ isTwoPoints
          THEN /\ isTwoPoints' = FALSE
               /\ capturingState' = FALSE
               /\ crossA' = moveCross(crossA, crossB, FALSE, NoPoint)
               /\ crossB' = hideElement(crossB)
               /\ selectionBox' = hideElement(selectionBox)
               /\ UNCHANGED mask
          ELSE UNCHANGED << isTwoPoints, capturingState, crossA, crossB,
                            selectionBox, mask >>
    /\ UNCHANGED exportVars
    /\ last' = "keyup"
    /\ out' = Called("none", NoRegion, "none", e)
    /\ track' = NoTrack
    /\ UNCHANGED << isVisible, pending, captureHeld, scene >>

\* onKeyUp moving crossB onto crossA when it exits two-point mode.
keyUp_collapseB(e) ==
    /\ selectionModificator' = IF ~e.shiftKey THEN RECT ELSE selectionModificator
    /\ IF ~e.ctrlKey /\ isTwoPoints
          THEN /\ isTwoPoints' = FALSE
               /\ capturingState' = FALSE
               /\ crossB' = hideElement(moveCross(crossB, crossA, FALSE, NoPoint))
               /\ selectionBox' = hideElement(selectionBox)
               /\ mask' = hideElement(mask)
               /\ UNCHANGED crossA
          ELSE UNCHANGED << isTwoPoints, capturingState, crossA, crossB,
                            selectionBox, mask >>
    /\ UNCHANGED exportVars
    /\ last' = "keyup"
    /\ out' = Called("none", NoRegion, "none", e)
    /\ track' = NoTrack
    /\ UNCHANGED << isVisible, pending, captureHeld, scene >>

\* onKeyUp(e).
keyUp(e) ==
    /\ selectionModificator' = IF ~e.shiftKey THEN RECT ELSE selectionModificator
    /\ IF ~e.ctrlKey /\ isTwoPoints
          THEN /\ isTwoPoints' = FALSE
               /\ capturingState' = FALSE
               /\ crossA' = moveCross(crossA, crossB, FALSE, NoPoint)
               /\ crossB' = hideElement(crossB)
               /\ selectionBox' = hideElement(selectionBox)
               /\ mask' = hideElement(mask)
          ELSE UNCHANGED << isTwoPoints, capturingState, crossA, crossB,
                            selectionBox, mask >>
    /\ UNCHANGED exportVars
    /\ last' = "keyup"
    /\ out' = Called("none", NoRegion, "none", e)
    /\ track' = NoTrack
    /\ UNCHANGED << isVisible, pending, captureHeld, scene >>

onKeyDown ==
    \E shift \in scene.shiftKeys, ctrl \in BOOLEAN : keyDown(KeyEvent(shift, ctrl))

onKeyUp ==
    \E shift \in scene.shiftKeys, ctrl \in BOOLEAN : keyUp(KeyEvent(shift, ctrl))

(* --------------------------- hide and show ------------------------------ *)

\* RectSelector.hide(): super.hide(), then hideAll([crossA, crossB, mask]).
hide ==
    /\ isVisible' = FALSE
    /\ crossA' = hideElement(crossA)
    /\ crossB' = hideElement(crossB)
    /\ mask' = hideElement(mask)
    /\ UNCHANGED exportVars
    /\ last' = "hide"
    /\ out' = Quiet
    /\ track' = NoTrack
    /\ UNCHANGED << capturingState, isTwoPoints, selectionModificator, selectionBox,
                    pending, captureHeld, scene >>

\* RectSelector.show(): super.show(), then crossA.show().
show ==
    /\ isVisible' = TRUE
    /\ crossA' = showElement(crossA)
    /\ UNCHANGED exportVars
    /\ last' = "show"
    /\ out' = Quiet
    /\ track' = NoTrack
    /\ UNCHANGED << capturingState, isTwoPoints, selectionModificator, crossB,
                    selectionBox, mask, pending, captureHeld, scene >>

Next ==
    \/ onPointerEnter
    \/ onPointerLeave
    \/ onPointerDown
    \/ onPointerUp
    \/ onPointerMove
    \/ AnimationFrame
    \/ onKeyDown
    \/ onKeyUp
    \/ hide
    \/ show

Spec == Init /\ [][Next]_vars

(* --------------------------- the CSV export ----------------------------- *)

\* How many assets an export holds, and how many regions an asset.
MaxAssets == 1
MaxRegions == 3

\* The size HtmlFileReader.readAssetAttributes measures, and a size an asset
\* may have on record instead.
MeasuredSize == Rect(100, 80)
OtherSize == Rect(200, 160)

Box(l, t, w, h) == [left |-> l, top |-> t, width |-> w, height |-> h]

\* The regions an asset may hold: inside the measured size with one and with
\* two tags, beyond it with one tag and with none.
RegionChoices ==
    { [boundingBox |-> Box(10, 10, 30, 20), tags |-> << "cat" >>],
      [boundingBox |-> Box(50, 40, 50, 40), tags |-> << "cat", "dog" >>],
      [boundingBox |-> Box(60, 10, 50, 20), tags |-> << "car" >>],
      [boundingBox |-> Box(10, 50, 20, 40), tags |-> << >>] }

SeqsUpTo(S, n) == UNION { [1..k -> S] : k \in 0..n }

AssetChoices ==
    { [asset |-> [size |-> size, state |-> "Tagged"],
       measured |-> MeasuredSize, regions |-> regions] :
          size \in { MeasuredSize, OtherSize },
          regions \in SeqsUpTo(RegionChoices, MaxRegions) }

\* The check for out of bounds boxes: skipAsset.
outOfBounds(meta) ==
    \E i \in 1..Len(meta.regions) :
        LET reg == meta.regions[i]
            maxx == reg.boundingBox.left + reg.boundingBox.width
            maxy == reg.boundingBox.top + reg.boundingBox.height
        IN  /\ reg.tags # << >>
            /\ (maxx > meta.measured.width \/ maxy > meta.measured.height)

\* The recorded size differs from the measured size.
resized(meta) ==
    \/ meta.asset.size.width # meta.measured.width
    \/ meta.asset.size.height # meta.measured.height

\* for (const ar of regions) { regions.pop() }: the iteration that stands at
\* index i goes on while i is less than the length the array has by then.
RECURSIVE popWhileIterating(_, _)
popWhileIterating(regions, i) ==
    IF i < Len(regions)
       THEN popWhileIterating(SubSeq(regions, 1, Len(regions) - 1), i + 1)
       ELSE regions

\* The rejected asset as it is saved.
rejected(meta) ==
    [meta EXCEPT !.regions = popWhileIterating(meta.regions, 0),
                 !.asset.state = "NotVisited"]

\* The CSV records of one region, one for each tag.
regionRecords(name, region) ==
    [t \in 1..Len(region.tags) |->
        [image |-> name,
         xmin |-> region.boundingBox.left,
         ymin |-> region.boundingBox.top,
         xmax |-> region.boundingBox.left + region.boundingBox.width,
         ymax |-> region.boundingBox.top + region.boundingBox.height,
         label |-> region.tags[t]]]

RECURSIVE assetRecords(_, _, _)
assetRecords(name, regions, i) ==
    IF i > Len(regions)
       THEN << >>
       ELSE regionRecords(name, regions[i]) \o assetRecords(name, regions, i + 1)

\* The export of a project: results = await this.getAssetsForExport().
ExportInit ==
    /\ results \in UNION { [1..n -> AssetChoices] : n \in 1..MaxAssets }
    /\ cursor = 1
    /\ dataItems = << >>
    /\ saved = << >>
    /\ toasts = << >>
    /\ csvData = NotWritten

\* The selector, constructed and left alone.
SelectorIdle ==
    /\ SelectorInit
    /\ scene.points = { Pt(60, -5) }

Exporting == cursor <= Len(results) /\ ~csvData.written

\* One round of the loop over results, the asset having a box out of bounds.
exportOutOfBounds ==
    /\ Exporting
    /\ outOfBounds(results[cursor])
    /\ results' = [results EXCEPT ![cursor] = rejected(@)]
    /\ saved' = Append(saved, results'[cursor])
    /\ toasts' = Append(toasts, [error |-> "Out Of bounds", asset |-> cursor])
    /\ cursor' = cursor + 1
    /\ UNCHANGED << dataItems, csvData >>

\* One round of the loop, the asset having another size than on record.
exportResized ==
    /\ Exporting
    /\ ~outOfBounds(results[cursor])
    /\ resized(results[cursor])
    /\ results' = [results EXCEPT ![cursor] = rejected(@)]
    /\ saved' = Append(saved, results'[cursor])
    /\ toasts' = Append(toasts, [error |-> "Resized image", asset |-> cursor])
    /\ cursor' = cursor + 1
    /\ UNCHANGED << dataItems, csvData >>

\* One round of the loop, the asset being exported: its records are pushed.
exportRecords ==
    /\ Exporting
    /\ ~outOfBounds(results[cursor])
    /\ ~resized(results[cursor])
    /\ dataItems' = dataItems \o assetRecords(cursor, results[cursor].regions, 1)
    /\ cursor' = cursor + 1
    /\ UNCHANGED << results, saved, toasts, csvData >>

\* After the loop: the CSV is parsed from dataItems and written.
writeCsv ==
    /\ cursor > Len(results)
    /\ ~csvData.written
    /\ csvData' = [written |-> TRUE, records |-> dataItems]
    /\ UNCHANGED << results, cursor, dataItems, saved, toasts >>

selectorState ==
    << capturingState, isTwoPoints, selectionModificator, isVisible,
       crossA, crossB, selectionBox, mask, pending, captureHeld,
       scene, last, out, track >>

ExportNext ==
    \/ exportOutOfBounds /\ UNCHANGED selectorState
    \/ exportResized /\ UNCHANGED selectorState
    \/ exportRecords /\ UNCHANGED selectorState
    \/ writeCsv /\ UNCHANGED selectorState

\* An export starts beside a selector that is left alone.
ExportStart == SelectorIdle /\ ExportInit

SpecExport == ExportStart /\ [][ExportNext]_vars

(* ------------------------------ claims ---------------------------------- *)

\* The rect region with the opposite corners p1 and p2.
RegionOf(p1, p2) ==
    [type |-> "RECT", x |-> Min(p1.x, p2.x), y |-> Min(p1.y, p2.y),
     width |-> Abs(p1.x - p2.x), height |-> Abs(p1.y - p2.y)]

\* The point p moved into the bound rectangle of the run.
Clamped(p) ==
    Pt(Max(0, Min(scene.boundRect.width, p.x)),
       Max(0, Min(scene.boundRect.height, p.y)))

\* A pointer-up body has just ended a one-point gesture: pointer-down,
\* pointer-moves (at least one), pointer-up, with nothing else in between.
OnePointGesture ==
    /\ last = "pointerup"
    /\ ~out.twoPoints
    /\ track.clean
    /\ track.gesture = "up"
    /\ track.moved # NoPoint

\* C1, as claimed: a one-point gesture with the pointer-down at a and the last
\* pointer-move at b hands onSelectionEnd the region spanned by a and b.
C1_AsClaimed ==
    OnePointGesture =>
        /\ out.cb = "end"
        /\ out.region = RegionOf(track.anchor, track.moved)

\* C1, amended: in free-rectangle mode a one-point gesture invokes
\* onSelectionEnd once, in its pointer-up body and in no pointer-down or
\* pointer-move body, with the region spanned by the place crossA had when the
\* pointer-down was handled and by b moved into the bound rectangle.
C1_OnePointCommit ==
    /\ last \in { "pointerdown", "pointermove" } => out.cb # "end"
    /\ (OnePointGesture /\ selectionModificator = RECT) =>
          /\ out.cb = "end"
          /\ out.region = RegionOf(track.from, Clamped(track.moved))

C1_Witness ==
    /\ OnePointGesture
    /\ selectionModificator = RECT
    /\ track.from = Pt(10, 10)
    /\ track.anchor = Pt(10, 10)
    /\ track.moved = Pt(50, 40)
    /\ out.region = [type |-> "RECT", x |-> 10, y |-> 10, width |-> 40, height |-> 30]

\* A pointer-up body has just committed in two-point mode a placement armed by
\* a pointer-up body, with only pointer-down, -move and -up bodies in between.
TwoPointCommit ==
    /\ last = "pointerup"
    /\ out.cb = "end"
    /\ out.twoPoints
    /\ track.clean

\* C2, as claimed: in two-point mode the click at p1 and the click at p2 (both
\* inside the bound rectangle) commit the region spanned by p1 and p2, and
\* leave both crosses at p2 and the selector in two-point mode.
C2_AsClaimed ==
    (TwoPointCommit /\ track.gesture = "up"
        /\ Clamped(track.anchor) = track.anchor /\ Clamped(track.up) = track.up) =>
        /\ out.region = RegionOf(track.anchor, track.up)
        /\ Pos(crossA) = track.up
        /\ Pos(crossB) = track.up
        /\ isTwoPoints

\* C2, amended: in free-rectangle mode the commit hands onSelectionEnd the
\* region spanned by the place crossA had at the first click and by the point
\* of the last pointer-move since (p1 when there was none), moved into the
\* bound rectangle; after it both crosses are at p2 moved into the bound
\* rectangle and isTwoPoints is still true.
C2_TwoPointCommit ==
    (TwoPointCommit /\ selectionModificator = RECT) =>
        LET b == IF track.moved = NoPoint THEN track.anchor ELSE track.moved
        IN  /\ out.region = RegionOf(track.from, Clamped(b))
            /\ Pos(crossA) = Clamped(track.up)
            /\ Pos(crossB) = Clamped(track.up)
            /\ isTwoPoints

C2_Witness ==
    /\ TwoPointCommit
    /\ track.from = Pt(5, 5)
    /\ track.anchor = Pt(5, 5)
    /\ track.moved = Pt(25, 15)
    /\ track.up = Pt(25, 15)
    /\ out.region = [type |-> "RECT", x |-> 5, y |-> 5, width |-> 20, height |-> 10]
    /\ Pos(crossA) = Pt(25, 15)
    /\ Pos(crossB) = Pt(25, 15)
    /\ isTwoPoints

\* A pointer-up body has just ended a sequence pointer-down, pointer-moves
\* (none or more), pointer-up.
DownMoveUp ==
    /\ last = "pointerup"
    /\ track.gesture = "up"

\* C3, as claimed: in every sequence pointer-down, pointer-moves, pointer-up
\* setPointerCapture is called once and releasePointerCapture is called once.
C3_AsClaimed ==
    DownMoveUp => (track.acquired = 1 /\ track.released = 1)

\* C3, amended: in one-point mode the sequence calls setPointerCapture once
\* and then releasePointerCapture once, while the capture is held; in
\* two-point mode it calls neither.
C3_CaptureOncePerGesture ==
    DownMoveUp =>
        IF out.twoPoints
           THEN track.acquired = 0 /\ track.released = 0 /\ out.call = "none"
           ELSE /\ track.acquired = 1
                /\ track.released = 1
                /\ out.call = "release"
                /\ out.held
                /\ ~captureHeld

C3_Witness ==
    /\ DownMoveUp
    /\ ~out.twoPoints
    /\ track.moved # NoPoint
    /\ track.acquired = 1
    /\ track.released = 1

\* C4, as claimed: releasePointerCapture is never called when no capture is
\* held, setPointerCapture is never called while one is held, and no capture
\* is held once capturingState is false or hide() has hidden the selector.
C4_AsClaimed ==
    /\ out.call = "release" => out.held
    /\ out.call = "set" => ~out.held
    /\ ~capturingState => ~captureHeld
    /\ last = "hide" => ~captureHeld

\* C5, as claimed: hide() called while capturingState is true leaves none of
\* crossA, crossB, selectionBox and mask visible and capturingState false.
C5_AsClaimed ==
    (last = "hide" /\ out.capturing) =>
        /\ ~capturingState
        /\ ~crossA.visible
        /\ ~crossB.visible
        /\ ~selectionBox.visible
        /\ ~mask.visible

\* The key-up of ctrl has just been handled with two-point mode armed.
CtrlUpWhileArmed ==
    /\ last = "keyup"
    /\ ~out.key.ctrlKey
    /\ out.twoPoints
    /\ out.capturing

\* C6: ctrl-up while two-point mode is armed makes isTwoPoints and
\* capturingState false, does not invoke onSelectionEnd, and leaves the
\* selection box, the mask and crossB hidden.
C6_CtrlUpCancels ==
    CtrlUpWhileArmed =>
        /\ ~isTwoPoints
        /\ ~capturingState
        /\ out.cb = "none"
        /\ ~selectionBox.visible
        /\ ~mask.visible
        /\ ~crossB.visible

C6_Witness ==
    /\ CtrlUpWhileArmed
    /\ ~isTwoPoints
    /\ ~capturingState
    /\ ~mask.visible

\* A pointer-up body has just committed a capture all of whose pointer-moves
\* (at least one) were handled with the square modifier active.
SquareCommit ==
    /\ last = "pointerup"
    /\ out.cb = "end"
    /\ out.capturing
    /\ track.clean
    /\ track.moved # NoPoint
    /\ selectionModificator = SQUARE

C8_RegionInBounds ==
    out.cb = "end" =>
        /\ out.region.width >= 0
        /\ out.region.height >= 0
        /\ 0 <= out.region.x /\ out.region.x <= scene.boundRect.width
        /\ 0 <= out.region.y /\ out.region.y <= scene.boundRect.height

C8_Witness ==
    /\ out.cb = "end"
    /\ track.clean
    /\ track.moved = Pt(60, -5)
    /\ out.region.width > 0

\* C9: the region built from crossA = p1, crossB = p2 equals the region built
\* from crossA = p2, crossB = p1, and so does the selection box; the region
\* committed in one-point mode is the one built from the swapped crosses.
C9_CornerSwap ==
    LET p1 == Pos(crossA)
        p2 == Pos(crossB)
    IN  /\ selectionRegion(p1, p2) = selectionRegion(p2, p1)
        /\ moveSelectionBox(selectionBox, p1, p2) = moveSelectionBox(selectionBox, p2, p1)
        /\ (last = "pointerup" /\ out.cb = "end" /\ ~out.twoPoints) =>
              out.region = selectionRegion(p2, p1)

C9_Witness ==
    /\ last = "pointerup"
    /\ out.cb = "end"
    /\ ~out.twoPoints
    /\ crossA.x > crossB.x
    /\ crossA.y > crossB.y
    /\ out.region = RegionOf(Pos(crossB), Pos(crossA))

\* C10, as claimed: every asset the export rejects is saved with all of its
\* regions cleared and with the state NotVisited.
C10_AsClaimed ==
    \A i \in 1..Len(saved) :
        /\ saved[i].regions = << >>
        /\ saved[i].asset.state = "NotVisited"

\* A region of the asset reaches beyond the measured size, tagged or not.
AnyRegionOutOfBounds(meta) ==
    \E i \in 1..Len(meta.regions) :
        \/ meta.regions[i].boundingBox.left + meta.regions[i].boundingBox.width
              > meta.measured.width
        \/ meta.regions[i].boundingBox.top + meta.regions[i].boundingBox.height
              > meta.measured.height

\* The records of the asset at place i, pushed or written.
RecordsOf(i) ==
    { k \in 1..Len(dataItems) : dataItems[k].image = i }

\* C11, as claimed: every record has xmax and ymax within the measured size of
\* its asset, and an asset that has any region out of bounds, or a recorded
\* size other than the measured one, or that was rejected, has no record.
C11_AsClaimed ==
    /\ \A k \in 1..Len(dataItems) :
          /\ dataItems[k].xmax <= results[dataItems[k].image].measured.width
          /\ dataItems[k].ymax <= results[dataItems[k].image].measured.height
    /\ \A i \in 1..Len(results) :
          (\/ AnyRegionOutOfBounds(results[i])
           \/ resized(results[i])
           \/ results[i].asset.state = "NotVisited") => RecordsOf(i) = { }
    /\ csvData.written => csvData.records = dataItems

\* C12, as claimed: a pointer-up handled in one-point mode while
\* capturingState is false does not invoke onSelectionEnd, does not release
\* the pointer capture and leaves capturingState false.
C12_AsClaimed ==
    (last = "pointerup" /\ ~out.twoPoints /\ ~out.capturing) =>
        /\ out.cb # "end"
        /\ out.call # "release"
        /\ ~capturingState

\* C13, as claimed: the effects of the events take place in the order of
\* their delivery, so while the body of a delivered pointer-down or pointer-up
\* has not yet run, capturingState and isTwoPoints change only by that body
\* running.
C13_AsClaimed ==
    [][(pending # << >>
          /\ Head(pending).kind \in { "pointerdown", "pointerup" }
          /\ << capturingState, isTwoPoints >>' # << capturingState, isTwoPoints >>)
       => pending' = Tail(pending)]_vars

\* The step runs the scheduled body of an event of this kind.
Ran(kind) ==
    /\ pending # << >>
    /\ Head(pending).kind = kind
    /\ pending' = Tail(pending)

\* C14, as claimed: a pointer-down handled while capturingState is true does
\* not invoke onSelectionBegin, does not move crossB and leaves the state of
\* the capture as it is.
C14_AsClaimed ==
    [][(Ran("pointerdown") /\ capturingState) =>
          /\ out'.cb # "begin"
          /\ crossB' = crossB
          /\ selectionBox' = selectionBox
          /\ capturingState'
          /\ captureHeld' = captureHeld
          /\ out'.call = "none"]_vars

\* The step is the key-down, or the key-up, listener handling a key event.
KeyDownStep == last' = "keydown" /\ pending' = pending
KeyUpStep == last' = "keyup" /\ pending' = pending

\* C15: a key-down with ctrlKey handled while capturingState is true leaves
\* isTwoPoints, capturingState and the positions of the crosses as they are.
C15_CtrlDownWhileCapturing ==
    [][(KeyDownStep /\ out'.key.ctrlKey /\ capturingState) =>
          /\ isTwoPoints' = isTwoPoints
          /\ capturingState'
          /\ Pos(crossA)' = Pos(crossA)
          /\ Pos(crossB)' = Pos(crossB)]_vars

C15_Witness ==
    /\ last = "keydown"
    /\ out.key.ctrlKey
    /\ out.capturing
    /\ ~out.twoPoints
    /\ ~isTwoPoints
    /\ capturingState

\* The selection box is the rectangle spanned by the points a and b.
BoxSpans(box, a, b) ==
    /\ box.x = Min(a.x, b.x)
    /\ box.y = Min(a.y, b.y)
    /\ box.width = Abs(a.x - b.x)
    /\ box.height = Abs(a.y - b.y)

\* The step leaves the crosses, the box and the mask as visible as they were.
SameVisibility ==
    /\ crossA'.visible = crossA.visible
    /\ crossB'.visible = crossB.visible
    /\ selectionBox'.visible = selectionBox.visible
    /\ mask'.visible = mask.visible

\* C16, as claimed: a pointer-leave handled while capturing, in either mode,
\* keeps capturingState true, invokes no onSelectionEnd, moves crossB to the
\* leave point, updates the selection box and hides nothing.
C16_AsClaimed ==
    [][(Ran("pointerleave") /\ capturingState) =>
          /\ capturingState'
          /\ out'.cb # "end"
          /\ Pos(crossB)' = Clamped(Head(pending).p)
          /\ BoxSpans(selectionBox', Pos(crossA)', Pos(crossB)')
          /\ SameVisibility]_vars

\* C16, amended: a pointer-leave handled while capturing keeps capturingState
\* true, invokes no callback and hides nothing; in two-point mode it moves
\* crossB to the leave point (moved into the bound rectangle) and updates the
\* selection box; in one-point mode it moves nothing.
C16_LeaveWhileCapturing ==
    [][(Ran("pointerleave") /\ capturingState) =>
          /\ capturingState'
          /\ out'.cb = "none"
          /\ out'.call = "none"
          /\ captureHeld' = captureHeld
          /\ SameVisibility
          /\ crossA' = crossA
          /\ IF isTwoPoints
                THEN /\ Pos(crossB)' = Clamped(Head(pending).p)
                     /\ BoxSpans(selectionBox', Pos(crossA), Pos(crossB)')
                ELSE /\ crossB' = crossB
                     /\ selectionBox' = selectionBox]_vars

C16_Witness ==
    /\ last = "pointerleave"
    /\ capturingState
    /\ isTwoPoints
    /\ crossB.visible
    /\ mask.visible
    /\ Pos(crossB) \in scene.points
    /\ selectionBox.width > 0
    /\ BoxSpans(selectionBox, Pos(crossA), Pos(crossB))

\* The first pointer-up of a placement in two-point mode has just been handled.
FirstUpInTwoPoints ==
    /\ last = "pointerup"
    /\ out.twoPoints
    /\ ~out.capturing

\* C17, as claimed: in two-point mode the first pointer-up leaves the mask and
\* the selection box hidden and does not invoke onSelectionBegin.
C17_AsClaimed ==
    FirstUpInTwoPoints =>
        /\ out.cb # "begin"
        /\ ~mask.visible
        /\ ~selectionBox.visible

\* C17, amended: in two-point mode the first pointer-up starts the capture at
\* once: it sets capturingState, shows both crosses, the selection box and the
\* mask and invokes onSelectionBegin; a pointer-down in two-point mode invokes
\* nothing and leaves capturingState as it is; the pointer-up handled while
\* capturing invokes onSelectionEnd and ends the capture.
C17_FirstUpBegins ==
    /\ FirstUpInTwoPoints =>
          /\ capturingState
          /\ out.cb = "begin"
          /\ crossA.visible
          /\ crossB.visible
          /\ selectionBox.visible
          /\ mask.visible
    /\ (last = "pointerdown" /\ out.twoPoints) =>
          /\ out.cb = "none"
          /\ capturingState = out.capturing
    /\ (last = "pointerup" /\ out.twoPoints /\ out.capturing) =>
          /\ out.cb = "end"
          /\ ~capturingState

C17_Witness ==
    /\ FirstUpInTwoPoints
    /\ out.cb = "begin"
    /\ capturingState
    /\ mask.visible
    /\ selectionBox.visible
    /\ track.anchor # NoPoint

\* The step is a key-up without ctrlKey handled in two-point mode while
\* capturing.
CtrlUpMidPlacement ==
    /\ KeyUpStep
    /\ ~out'.key.ctrlKey
    /\ isTwoPoints
    /\ capturingState

\* C18, as claimed: the ctrl-up that exits two-point mode mid-placement leaves
\* crossB where crossA is and crossA where it was.
C18_AsClaimed ==
    [][CtrlUpMidPlacement =>
          /\ Pos(crossB)' = Pos(crossA)'
          /\ Pos(crossA)' = Pos(crossA)]_vars

\* C18, amended: the ctrl-up that exits two-point mode mid-placement moves
\* crossA onto crossB: after it crossA is where crossB is, and crossB is where
\* it was before the key-up.
C18_CrossAOntoCrossB ==
    [][CtrlUpMidPlacement =>
          /\ Pos(crossA)' = Pos(crossB)'
          /\ Pos(crossB)' = Pos(crossB)]_vars

\* After such a key-up: the hidden selection box still spans the cancelled
\* placement, whose corners were apart.
C18_Witness ==
    /\ CtrlUpWhileArmed
    /\ Pos(crossA) = Pos(crossB)
    /\ ~selectionBox.visible
    /\ selectionBox.width > 0
    /\ selectionBox.x + selectionBox.width = crossA.x

\* C19: whenever capturingState is true, the selection box is the rectangle
\* spanned by crossA and crossB.
C19_BoxSpansCrosses ==
    capturingState => BoxSpans(selectionBox, Pos(crossA), Pos(crossB))

C19_Witness ==
    /\ capturingState
    /\ pending = << >>
    /\ last = "pointermove"
    /\ crossB.x > crossA.x
    /\ crossB.y > crossA.y
    /\ selectionBox.width > 0
    /\ selectionBox.height > 0

\* C20, as claimed: onSelectionEnd is invoked only with an onSelectionBegin
\* outstanding, and onSelectionBegin only with none outstanding.  (One is
\* outstanding exactly while capturingState is true: the steps that invoke
\* onSelectionBegin are those that set it, the steps that invoke
\* onSelectionEnd and the ctrl-up cancel are those that clear it.)
C20_AsClaimed ==
    /\ out.cb = "end" => out.capturing
    /\ out.cb = "begin" => ~out.capturing

\* C21: the mask is visible only while capturingState is true, and so is
\* crossB; hence a step that makes capturingState false leaves both hidden.
C21_MaskAndCrossBOnlyWhileCapturing ==
    /\ mask.visible => capturingState
    /\ crossB.visible => capturingState

\* A pointer-up has just ended a capture in one-point mode.
C21_Witness ==
    /\ last = "pointerup"
    /\ ~out.twoPoints
    /\ out.capturing
    /\ out.cb = "end"
    /\ ~capturingState
    /\ ~mask.visible
    /\ ~crossB.visible
    /\ crossA.visible

====
